---------------------------- MODULE Spec2Model ----------------------------
(***************************************************************************)
(* Model of MovingAverageCrossover (trading_strategy.py): the pipeline     *)
(* run() = download_data; calculate_signals; backtest; calculate_metrics;  *)
(* print; plot_results over one shared DataFrame self.data.                *)
(*                                                                         *)
(* Floats are modelled as exact extended rationals <<n, d>>:               *)
(*   d > 0   the finite value n/d, in lowest terms                         *)
(*   <<0,0>> NaN,  <<1,0>> +inf,  <<-1,0>> -inf                            *)
(* with the IEEE rules for NaN (every comparison with NaN is false except  *)
(* !=, which is true) and for division by zero (numpy: inf or NaN, no      *)
(* exception).  Python's own float division 1/years raises on zero.        *)
(***************************************************************************)
EXTENDS Integers, Sequences, FiniteSets, TLC

\* ---------------------------------------------------------------- bounds
MaxLen == 3
MaxPrice == 3
MaxWindow == 3
\* how often the owner calls calculate_signals / backtest on one object
MaxCalls == 2

\* Closes whose signals are [0,0,1,1,-1,-1,0,1] under short_window 1 and
\* long_window 2 (the signal is then the sign of close[t] - close[t-1]).
FixtureCloses == <<2, 2, 3, 4, 3, 2, 2, 3>>
\* Closes that double every bar: every daily return is exactly 1.0
DoublingCloses == <<1, 2, 4>>

Prices == 1..MaxPrice
Windows == 1..MaxWindow
Capitals == {1000, 100000}
\* (end_date - start_date).days: start after end, start = end, the default 5 years
ElapsedDays == {-365, 0, 1825}

RECURSIVE SeqsOfLen(_)
SeqsOfLen(n) ==
    IF n = 0 THEN {<<>>}
    ELSE {Append(s, p) : s \in SeqsOfLen(n - 1), p \in Prices}

PriceSeries == UNION {SeqsOfLen(n) : n \in 0..MaxLen} \cup {FixtureCloses, DoublingCloses}

\* ------------------------------------------------------ float arithmetic
NaN == <<0, 0>>

Abs(n) == IF n < 0 THEN -n ELSE n
Sgn(n) == IF n > 0 THEN 1 ELSE IF n < 0 THEN -1 ELSE 0

RECURSIVE GCD(_, _)
GCD(a, b) == IF b = 0 THEN a ELSE GCD(b, a % b)

\* n/d for integers n, d (d may be 0 or negative): IEEE division
Frac(n, d) ==
    IF d = 0 THEN <<Sgn(n), 0>>
    ELSE LET g == GCD(Abs(n), Abs(d))
         IN  <<Sgn(d) * (n \div g), Abs(d) \div g>>

R(i) == <<i, 1>>
IsNaN(x) == x = NaN
IsFinite(x) == x[2] > 0
IsInf(x) == x[2] = 0 /\ x[1] # 0

FAdd(x, y) ==
    IF IsNaN(x) \/ IsNaN(y) THEN NaN
    ELSE IF IsInf(x) /\ IsInf(y) THEN (IF x = y THEN x ELSE NaN)
    ELSE IF IsInf(x) THEN x
    ELSE IF IsInf(y) THEN y
    ELSE Frac(x[1] * y[2] + y[1] * x[2], x[2] * y[2])

FNeg(x) == <<-x[1], x[2]>>
FSub(x, y) == FAdd(x, FNeg(y))

FMul(x, y) ==
    IF IsNaN(x) \/ IsNaN(y) THEN NaN
    ELSE IF IsInf(x) \/ IsInf(y) THEN <<Sgn(x[1]) * Sgn(y[1]), 0>>
    ELSE Frac(x[1] * y[1], x[2] * y[2])

FDiv(x, y) ==
    IF IsNaN(x) \/ IsNaN(y) THEN NaN
    ELSE IF IsInf(y) THEN (IF IsInf(x) THEN NaN ELSE R(0))
    ELSE IF IsInf(x) THEN <<x[1] * (IF y[1] < 0 THEN -1 ELSE 1), 0>>
    ELSE Frac(x[1] * y[2], x[2] * y[1])

\* x < y; false when either is NaN
FLt(x, y) ==
    /\ ~IsNaN(x)
    /\ ~IsNaN(y)
    /\ IF IsFinite(x) /\ IsFinite(y) THEN x[1] * y[2] < y[1] * x[2]
       ELSE IF IsInf(x) /\ IsInf(y) THEN x[1] < y[1]
       ELSE IF IsInf(x) THEN x[1] < 0
       ELSE y[1] > 0
FGt(x, y) == FLt(y, x)
FLe(x, y) == ~IsNaN(x) /\ ~IsNaN(y) /\ ~FLt(y, x)
\* x != y; true when either is NaN
FNe(x, y) == IsNaN(x) \/ IsNaN(y) \/ x # y

\* round(x, 2): to the nearest multiple of 1/100, ties to even
RoundTo(x, scale) ==
    IF ~IsFinite(x) THEN x
    ELSE LET n == x[1] * scale
             d == x[2]
             q == n \div d
             r == n % d
             up == \/ 2 * r > d
                   \/ 2 * r = d /\ q % 2 # 0
         IN  Frac(IF up THEN q + 1 ELSE q, scale)
Round2(x) == RoundTo(x, 100)
\* f'${x:,.0f}': rounded to a whole number of dollars
Money(x) == RoundTo(x, 1)

\* ------------------------------------------------------- series helpers
Idx(s) == 1..Len(s)

RECURSIVE SumInts(_, _, _)
SumInts(s, lo, hi) == IF lo > hi THEN 0 ELSE s[hi] + SumInts(s, lo, hi - 1)

\* Mutant: rolling(window=w, min_periods=1), a mean over the bars seen so far
RollingMeanPartial(close, w) ==
    [t \in Idx(close) |->
        IF t < w THEN Frac(SumInts(close, 1, t), t)
        ELSE Frac(SumInts(close, t - w + 1, t), w)]

\* Series.rolling(window=w).mean(): NaN until w observations exist
RollingMean(close, w) ==
    [t \in Idx(close) |->
        IF t < w THEN NaN ELSE Frac(SumInts(close, t - w + 1, t), w)]

\* Series.diff(): the first entry is NaN
Diff(s) == [t \in Idx(s) |-> IF t = 1 THEN NaN ELSE R(s[t] - s[t - 1])]

\* Series.shift(1): the first entry is NaN
Shift1(s) == [t \in Idx(s) |-> IF t = 1 THEN NaN ELSE R(s[t - 1])]

\* Series.pct_change(): the first entry is NaN
PctChange(close) ==
    [t \in Idx(close) |->
        IF t = 1 THEN NaN
        ELSE FSub(FDiv(R(close[t]), R(close[t - 1])), R(1))]

\* running fold that skips NaN (pandas skipna): NaN entries stay NaN and
\* leave the running state alone
RECURSIVE RunProd(_, _)
RunProd(s, t) ==
    IF t = 0 THEN R(1)
    ELSE IF IsNaN(s[t]) THEN RunProd(s, t - 1)
    ELSE FMul(RunProd(s, t - 1), s[t])
CumProd(s) == [t \in Idx(s) |-> IF IsNaN(s[t]) THEN NaN ELSE RunProd(s, t)]

FMax(x, y) == IF IsNaN(x) THEN y ELSE IF IsNaN(y) THEN x ELSE IF FLt(x, y) THEN y ELSE x
FMin(x, y) == IF IsNaN(x) THEN y ELSE IF IsNaN(y) THEN x ELSE IF FLt(y, x) THEN y ELSE x

RECURSIVE RunMax(_, _)
RunMax(s, t) == IF t = 0 THEN NaN ELSE FMax(RunMax(s, t - 1), s[t])
CumMax(s) == [t \in Idx(s) |-> IF IsNaN(s[t]) THEN NaN ELSE RunMax(s, t)]

RECURSIVE RunMin(_, _)
RunMin(s, t) == IF t = 0 THEN NaN ELSE FMin(RunMin(s, t - 1), s[t])
\* Series.min(): NaN when no observation is defined
SeriesMin(s) == RunMin(s, Len(s))

RECURSIVE SumDefined(_, _)
SumDefined(s, t) ==
    IF t = 0 THEN R(0)
    ELSE IF IsNaN(s[t]) THEN SumDefined(s, t - 1)
    ELSE FAdd(SumDefined(s, t - 1), s[t])
CountDefined(s) == Cardinality({t \in Idx(s) : ~IsNaN(s[t])})

\* Series.mean(): over the defined observations, NaN when there are none
Mean(s) == FDiv(SumDefined(s, Len(s)), R(CountDefined(s)))

\* Series.std() squared (ddof = 1): NaN with fewer than 2 observations
Variance(s) ==
    LET n == CountDefined(s)
        m == Mean(s)
        sq == [t \in Idx(s) |->
                 IF IsNaN(s[t]) THEN NaN
                 ELSE FMul(FSub(s[t], m), FSub(s[t], m))]
    IN  IF n < 2 THEN NaN ELSE FDiv(SumDefined(sq, Len(sq)), R(n - 1))


\* ------------------------------------------------------------ the state
VARIABLES
    short_window,     \* self.short_window
    long_window,      \* self.long_window
    initial_capital,  \* self.initial_capital
    days,             \* (self.end_date - self.start_date).days
    data,             \* self.data: column name -> series
    pc,               \* the statement of run() to execute next
    metrics,          \* the record calculate_metrics returned, or NoMetrics
    printed,          \* the metrics table run() has printed, or NoMetrics
    plotted,          \* plot_results has drawn and saved the chart
    raised,           \* the exception that left run(), or "none"
    calls             \* how often calculate_signals / backtest have been called

vars == <<short_window, long_window, initial_capital, days, data, pc,
          metrics, printed, plotted, raised, calls>>
config == <<short_window, long_window, initial_capital, days>>

NoMetrics == [none |-> TRUE]
NoData == [c \in {} |-> <<>>]

Has(d, col) == col \in DOMAIN d
WithCols(d, new) ==
    [c \in DOMAIN d \cup DOMAIN new |-> IF c \in DOMAIN new THEN new[c] ELSE d[c]]

\* ------------------------------------------------------ calculate_signals
\* Mutant: a tie of the two averages counts as long (>= for >)
SignalOfTieLong(short, long) ==
    LET s0 == [t \in Idx(short) |-> 0]
        s1 == [t \in Idx(short) |-> IF FLe(long[t], short[t]) THEN 1 ELSE s0[t]]
    IN  [t \in Idx(short) |-> IF FLt(short[t], long[t]) THEN -1 ELSE s1[t]]

\* Signal = 0, then 1 where SMA_short > SMA_long, then -1 where SMA_short < SMA_long
SignalOf(short, long) ==
    LET s0 == [t \in Idx(short) |-> 0]
        s1 == [t \in Idx(short) |-> IF FGt(short[t], long[t]) THEN 1 ELSE s0[t]]
    IN  [t \in Idx(short) |-> IF FLt(short[t], long[t]) THEN -1 ELSE s1[t]]

CalculateSignals(d, sw, lw) ==
    LET short == RollingMean(d["Close"], sw)
        long == RollingMean(d["Close"], lw)
        signal == SignalOf(short, long)
    IN  WithCols(d, [SMA_short |-> short, SMA_long |-> long,
                     Signal |-> signal, Position |-> Diff(signal)])

\* --------------------------------------------------------------- backtest
\* Mutant: the signal of the same bar, without shift(1)
StrategyReturnSameBar(daily, signal) ==
    [t \in Idx(daily) |-> FMul(daily[t], R(signal[t]))]

StrategyReturn(daily, signal) ==
    LET held == Shift1(signal)
    IN  [t \in Idx(daily) |-> FMul(daily[t], held[t])]

OnePlus(s) == [t \in Idx(s) |-> FAdd(R(1), s[t])]
Scale(k, s) == [t \in Idx(s) |-> FMul(R(k), s[t])]

\* Mutant: the shifted signal is stored back into the Signal column
BacktestShiftInPlace(d, capital) ==
    LET daily == PctChange(d["Close"])
        held == [t \in Idx(daily) |-> IF t = 1 THEN 0 ELSE d["Signal"][t - 1]]
        strat == [t \in Idx(daily) |-> FMul(daily[t], R(held[t]))]
        bh == CumProd(OnePlus(daily))
        sc == CumProd(OnePlus(strat))
    IN  WithCols(d, [Signal |-> held,
                     Daily_Return |-> daily, Strategy_Return |-> strat,
                     Buy_Hold_Return |-> bh, Strategy_Cumulative |-> sc,
                     Buy_Hold_Value |-> Scale(capital, bh),
                     Strategy_Value |-> Scale(capital, sc)])

Backtest(d, capital) ==
    LET daily == PctChange(d["Close"])
        strat == StrategyReturn(daily, d["Signal"])
        bh == CumProd(OnePlus(daily))
        sc == CumProd(OnePlus(strat))
    IN  WithCols(d, [Daily_Return |-> daily, Strategy_Return |-> strat,
                     Buy_Hold_Return |-> bh, Strategy_Cumulative |-> sc,
                     Buy_Hold_Value |-> Scale(capital, bh),
                     Strategy_Value |-> Scale(capital, sc)])

\* ------------------------------------------------------ calculate_metrics
\* s.iloc[-1]
Last(s) == s[Len(s)]

TotalReturn(final, capital) ==
    FMul(FSub(FDiv(final, R(capital)), R(1)), R(100))

\* years = days / 365.25
Years(d) == Frac(4 * d, 1461)

\* (base ** (1/years) - 1) * 100 for years # 0.  The power is not rational:
\* the value is kept symbolically as (base, exponent) with the class numpy's
\* power gives it (1/years is never an integer).
AnnualReturn(final, capital, d) ==
    LET base == FDiv(final, R(capital))
        exponent == FDiv(R(1), Years(d))
    IN  [base |-> base, exponent |-> exponent,
         kind |-> IF IsNaN(base) THEN "nan"
                  ELSE IF IsInf(base)
                       THEN (IF base[1] < 0 THEN "nan"
                             ELSE IF exponent[1] > 0 THEN "inf" ELSE "finite")
                  ELSE IF base[1] > 0 THEN "finite"
                  ELSE IF base[1] = 0
                       THEN (IF exponent[1] > 0 THEN "finite" ELSE "inf")
                  ELSE "nan"]

\* mean / std * sqrt(252).  The square roots are not rational: the value is
\* kept symbolically as (mean, variance) with the class the float division
\* gives it (std is 0 exactly when the variance is, NaN exactly when it is).
Sharpe(s) ==
    LET m == Mean(s)
        v == Variance(s)
        q == FDiv(m, IF IsFinite(v) /\ v[1] > 0 THEN R(1) ELSE v)
    IN  [mean |-> m, var |-> v,
         kind |-> IF IsNaN(q) THEN "nan"
                  ELSE IF IsInf(q) THEN "inf"
                  ELSE "finite"]

Drawdown(value) ==
    LET peak == CumMax(value)
    IN  [t \in Idx(value) |-> FMul(FDiv(FSub(value[t], peak[t]), peak[t]), R(100))]

\* (Position != 0).sum()
NumTrades(position) == Cardinality({t \in Idx(position) : FNe(position[t], R(0))})

\* the exception calculate_metrics raises on these inputs, or "none"
MetricsError(d, dd) ==
    IF Len(d["Strategy_Value"]) = 0 THEN "IndexError"
    ELSE IF dd = 0 THEN "ZeroDivisionError"
    ELSE "none"

CalculateMetrics(d, capital, dd) ==
    LET bhFinal == Last(d["Buy_Hold_Value"])
        stFinal == Last(d["Strategy_Value"])
    IN  [bh_total |-> Round2(TotalReturn(bhFinal, capital)),
         st_total |-> Round2(TotalReturn(stFinal, capital)),
         bh_annual |-> AnnualReturn(bhFinal, capital, dd),
         st_annual |-> AnnualReturn(stFinal, capital, dd),
         bh_sharpe |-> Sharpe(d["Daily_Return"]),
         st_sharpe |-> Sharpe(d["Strategy_Return"]),
         max_drawdown |-> Round2(SeriesMin(Drawdown(d["Strategy_Value"]))),
         num_trades |-> NumTrades(d["Position"]),
         initial_capital |-> capital,
         final_strategy |-> Money(stFinal),
         final_buy_hold |-> Money(bhFinal)]

\* ---------------------------------------------------------------- actions
Init ==
    /\ days \in ElapsedDays
    /\ long_window \in Windows
    /\ short_window \in Windows
    /\ initial_capital \in Capitals
    /\ data = NoData
    /\ pc = "idle"
    /\ metrics = NoMetrics
    /\ printed = NoMetrics
    /\ plotted = FALSE
    /\ raised = "none"
    /\ calls = [calculate_signals |-> 0, backtest |-> 0]

\* run(): the banner, then the pipeline
run ==
    /\ pc = "idle"
    /\ pc' = "download_data"
    /\ UNCHANGED <<config, data, metrics, printed, plotted, raised, calls>>

download_data ==
    /\ pc = "download_data"
    /\ \E closes \in PriceSeries : data' = [Close |-> closes]
    /\ pc' = "calculate_signals"
    /\ UNCHANGED <<config, metrics, printed, plotted, raised, calls>>

\* as run()'s second step, or called again by the owner after run() returned
calculate_signals ==
    /\ pc \in {"calculate_signals", "returned"}
    /\ calls.calculate_signals < MaxCalls
    /\ calls' = [calls EXCEPT !.calculate_signals = @ + 1]
    /\ pc' = IF pc = "calculate_signals" THEN "backtest" ELSE pc
    /\ UNCHANGED <<config, metrics, printed, plotted, raised>>
    /\ data' = CalculateSignals(data, short_window, long_window)

backtest ==
    /\ pc \in {"backtest", "returned"}
    /\ calls.backtest < MaxCalls
    /\ calls' = [calls EXCEPT !.backtest = @ + 1]
    /\ pc' = IF pc = "backtest" THEN "calculate_metrics" ELSE pc
    /\ UNCHANGED <<config, metrics, printed, plotted, raised>>
    /\ data' = Backtest(data, initial_capital)

\* Mutant: run() swallows the exception of calculate_metrics and goes on
calculate_metrics_swallow ==
    /\ pc = "calculate_metrics"
    /\ LET err == MetricsError(data, days)
       IN  IF err = "none"
           THEN /\ metrics' = CalculateMetrics(data, initial_capital, days)
                /\ raised' = raised
           ELSE /\ metrics' = metrics
                /\ raised' = err
    /\ pc' = "print"
    /\ UNCHANGED <<config, data, printed, plotted, calls>>

calculate_metrics ==
    /\ pc = "calculate_metrics"
    /\ LET err == MetricsError(data, days)
       IN  IF err = "none"
           THEN /\ metrics' = CalculateMetrics(data, initial_capital, days)
                /\ pc' = "print"
                /\ raised' = raised
           ELSE /\ metrics' = metrics
                /\ pc' = "raised"
                /\ raised' = err
    /\ UNCHANGED <<config, data, printed, plotted, calls>>

print_metrics ==
    /\ pc = "print"
    /\ printed' = metrics
    /\ pc' = "plot_results"
    /\ UNCHANGED <<config, data, metrics, plotted, raised, calls>>

plot_results ==
    /\ pc = "plot_results"
    /\ plotted' = TRUE
    /\ pc' = "returned"
    /\ UNCHANGED <<config, data, metrics, printed, raised, calls>>

Next ==
    \/ run
    \/ download_data
    \/ calculate_signals
    \/ backtest
    \/ calculate_metrics
    \/ print_metrics
    \/ plot_results

Spec == Init /\ [][Next]_vars

\* ----------------------------------------------------------- properties
Close == data["Close"]
Bars == Idx(Close)
AfterMetrics == pc \in {"print", "plot_results", "returned", "raised"}

\* close[t]/close[t-1] - 1, times an integer position k
ReturnTimes(t, k) == Frac((Close[t] - Close[t - 1]) * k, Close[t - 1])

WindowSum(t, w) == SumInts(Close, t - w + 1, t)
BothDefined(t) == t >= short_window /\ t >= long_window
\* short_avg[t] > long_avg[t], < and ==, by cross-multiplying the two means
ShortAbove(t) ==
    BothDefined(t) /\ WindowSum(t, short_window) * long_window
                        > WindowSum(t, long_window) * short_window
ShortBelow(t) ==
    BothDefined(t) /\ WindowSum(t, short_window) * long_window
                        < WindowSum(t, long_window) * short_window
Tie(t) ==
    BothDefined(t) /\ WindowSum(t, short_window) * long_window
                        = WindowSum(t, long_window) * short_window

\* C2: after calculate_signals every signal is -1, 0 or +1; +1 exactly when
\* both averages are defined and short > long, -1 exactly when both are
\* defined and short < long, 0 when an average is undefined or they are equal.
C2_SignalTriState ==
    Has(data, "Signal") =>
        \A t \in Bars :
            LET sig == data["Signal"][t]
            IN  /\ sig \in {-1, 0, 1}
                /\ sig = 1 <=> ShortAbove(t)
                /\ sig = -1 <=> ShortBelow(t)
                /\ (~BothDefined(t) \/ Tie(t)) => sig = 0

\* C2 witness: one series with a long bar, a short bar, a tie of two defined
\* averages and a bar whose long average is still undefined.
C2_AllSignalCases ==
    /\ Has(data, "Signal")
    /\ \E t \in Bars : data["Signal"][t] = 1
    /\ \E t \in Bars : data["Signal"][t] = -1
    /\ \E t \in Bars : Tie(t) /\ data["Signal"][t] = 0
    /\ \E t \in Bars : ~BothDefined(t) /\ data["Signal"][t] = 0

FixtureSignals == <<0, 0, 1, 1, -1, -1, 0, 1>>

\* signal[t] - signal[t-1], the first bar's predecessor taken as 0
PositionDelta(t) ==
    data["Signal"][t] - (IF t = 1 THEN 0 ELSE data["Signal"][t - 1])

\* C3: 'Number of Trades' is the number of bars with a nonzero position
\* delta (first bar's predecessor signal 0), and 4 on [0,0,1,1,-1,-1,0,1].
C3_TradeCount ==
    metrics # NoMetrics =>
        /\ metrics.num_trades = Cardinality({t \in Bars : PositionDelta(t) # 0})
        /\ data["Signal"] = FixtureSignals => metrics.num_trades = 4

\* the strategy value is below an earlier value, i.e. below its running peak
FallsBelowPeak ==
    \E t, u \in Bars :
        u < t /\ FLt(data["Strategy_Value"][t], data["Strategy_Value"][u])

\* C4: the reported maximum drawdown is <= 0, and is 0 exactly when the
\* strategy value never falls below its running peak.
C4_MaxDrawdown ==
    metrics # NoMetrics =>
        /\ FLe(metrics.max_drawdown, R(0))
        /\ metrics.max_drawdown = R(0) <=> ~FallsBelowPeak

\* C5: with zero or negative elapsed days calculate_metrics does not raise
\* and reports both annualized returns as undefined.
C5_DegenerateYears ==
    (AfterMetrics /\ days <= 0 /\ Len(Close) > 0) =>
        /\ raised = "none"
        /\ metrics # NoMetrics
        /\ metrics.bh_annual.kind = "nan"
        /\ metrics.st_annual.kind = "nan"

\* fewer than 2 defined observations, or all of them equal
StdevZeroOrUndefined(s) ==
    LET obs == {t \in Idx(s) : ~IsNaN(s[t])}
    IN  Cardinality(obs) < 2 \/ \A t, u \in obs : s[t] = s[u]

\* C6: a Sharpe ratio whose return series has a zero or uncomputable
\* standard deviation is reported as undefined (not finite, not infinite).
C6_SharpeUndefined ==
    metrics # NoMetrics =>
        /\ StdevZeroOrUndefined(data["Daily_Return"])
               => metrics.bh_sharpe.kind = "nan"
        /\ StdevZeroOrUndefined(data["Strategy_Return"])
               => metrics.st_sharpe.kind = "nan"

EmptyDownload == Has(data, "Close") /\ Len(Close) = 0

\* C7: when download_data yields no bars, run() never holds, prints or
\* returns a metrics record and never reaches plot_results: it leaves
\* calculate_metrics with an exception.
C7_EmptySeriesAborts ==
    EmptyDownload =>
        /\ metrics = NoMetrics
        /\ printed = NoMetrics
        /\ ~plotted
        /\ pc \in {"calculate_signals", "backtest", "calculate_metrics", "raised"}
        /\ pc = "raised" => raised # "none"

\* C7 witness: the run over an empty series has been aborted.
C7_AbortedOnEmpty == EmptyDownload /\ pc = "raised" /\ raised = "IndexError"

\* product of (1 + r[i]) for i <= t seeded at 1, an undefined return
\* contributing the factor 1
RECURSIVE SeededProduct(_, _)
SeededProduct(r, t) ==
    IF t = 0 THEN R(1)
    ELSE FMul(SeededProduct(r, t - 1),
              IF IsNaN(r[t]) THEN R(1) ELSE FAdd(R(1), r[t]))

\* C8: after backtest, on every bar including the first, both cumulative
\* factors are the seeded running product, so they are 1 and both values
\* are initial_capital on the first bar.
C8_CumulativeSeededAtOne ==
    Has(data, "Strategy_Value") =>
        \A t \in Bars :
            /\ data["Buy_Hold_Return"][t] = SeededProduct(data["Daily_Return"], t)
            /\ data["Strategy_Cumulative"][t]
                   = SeededProduct(data["Strategy_Return"], t)
            /\ t = 1 => /\ data["Buy_Hold_Value"][t] = R(initial_capital)
                        /\ data["Strategy_Value"][t] = R(initial_capital)

ShortSeries == Has(data, "Close") /\ Len(Close) >= 1 /\ Len(Close) < long_window
AllNeutral == Has(data, "Signal") => \A t \in Bars : data["Signal"][t] = 0

EarlierColumns == {"Close", "SMA_short", "SMA_long", "Signal", "Position"}

\* C10: backtest leaves close, both averages, signal and position delta
\* unchanged; calculate_metrics leaves every column unchanged; a second
\* call of calculate_signals or of backtest leaves every column as the
\* first call left it.
C10_AppendOnly ==
    [][/\ backtest =>
              /\ \A c \in EarlierColumns : data'[c] = data[c]
              /\ Has(data, "Strategy_Value") => data' = data
       /\ calculate_metrics => data' = data
       /\ (Has(data, "Signal") /\ calculate_signals) => data' = data]_vars

\* C10 witness: both methods have been called twice on a series that trades.
C10_CalledTwice ==
    /\ calls.calculate_signals = 2
    /\ calls.backtest = 2
    /\ \E t \in Bars : data["Signal"][t] # 0
    /\ \E t \in Bars : FNe(data["Strategy_Return"][t], R(0))
                        /\ ~IsNaN(data["Strategy_Return"][t])

=============================================================================
